---- MODULE Spec2Model ----
(***************************************************************************)
(* A model of hmpo-config (lib/config.js): the Config class with its file   *)
(* cache, its format dispatch and its deep merge of configuration           *)
(* fragments.  One action per public method; the file system is a second    *)
(* party that may change files between calls.                               *)
(***************************************************************************)
EXTENDS Integers, Sequences, FiniteSets, TLC

VARIABLES appRoot, fileCache, config, disk, steps, last, prev

vars == <<appRoot, fileCache, config, disk, steps, last, prev>>

\* Bound of the exploration: the method calls made on the store and the
\* changes made to the files behind its back, together.
MaxSteps == 3

(***************************************************************************)
(* JavaScript values.  A property value is a record of one shape:          *)
(*   t    "undefined" | "string" | "array" | "object"                      *)
(*   s    the string, e the array's elements, f the object's own fields    *)
(*   ref  the identity of a nested object: the path of the file-cache      *)
(*        entry that holds this very object, NoPath for an object nothing  *)
(*        else holds.  Two values with the same ref are one JS object.     *)
(* A top-level value is undefined, false or an object (a map of Keys).     *)
(***************************************************************************)
Keys == {"APP_NAME", "APP_VERSION", "APP_ROOT", "name", "version", "db", "port"}
SubKeys == {"host", "port"}
Absent == "<absent>"

NoPath == [dir |-> <<>>, name |-> "", ext |-> ""]
NoFields == [j \in SubKeys |-> Absent]

Undef == [t |-> "undefined", s |-> "", e |-> <<>>, f |-> NoFields, ref |-> NoPath]
Str(x) == [t |-> "string", s |-> x, e |-> <<>>, f |-> NoFields, ref |-> NoPath]
Arr(x) == [t |-> "array", s |-> "", e |-> x, f |-> NoFields, ref |-> NoPath]
Obj(x) == [t |-> "object", s |-> "", e |-> <<>>, f |-> x, ref |-> NoPath]

EmptyMap == [k \in Keys |-> Undef]
JUndef == [k |-> "undefined", m |-> EmptyMap]
JFalse == [k |-> "false", m |-> EmptyMap]
JObj(m) == [k |-> "object", m |-> m]

\* JavaScript truthiness of a top-level value: undefined, null and false are
\* falsy, every object (the empty one included) is truthy.
Truthy(v) == v.k = "object"

\* v.key: a TypeError for undefined and null (Nullish), undefined for false.
Nullish(v) == v.k \in {"undefined", "null"}
Prop(v, key) == IF v.k = "object" THEN v.m[key] ELSE Undef

\* Two property values with the same content, whatever object holds it.
Same(v, w) == v.t = w.t /\ v.s = w.s /\ v.e = w.e /\ v.f = w.f
SameJ(a, b) == a.k = b.k /\ \A k \in Keys : Same(a.m[k], b.m[k])

(***************************************************************************)
(* Paths.  A path is [abs, dir, name, ext]; path.resolve joins a relative  *)
(* path to appRoot and normalises "." and ".." segments; path.extname is   *)
(* the ext field.                                                          *)
(***************************************************************************)
\* A root directory is one segment; the constructor's argument may be absent
\* (modelled, like any falsy argument, by the empty string).
AppRootPath == "/srv/site"
NoRootArg == ""
RootArgs == {NoRootArg, "/app"}

RECURSIVE Normalise(_, _)
Normalise(segs, acc) ==
    IF segs = <<>> THEN acc
    ELSE IF Head(segs) = "." THEN Normalise(Tail(segs), acc)
    ELSE IF Head(segs) = ".."
         THEN Normalise(Tail(segs), IF acc = <<>> THEN acc ELSE SubSeq(acc, 1, Len(acc) - 1))
    ELSE Normalise(Tail(segs), Append(acc, Head(segs)))

resolve(root, path) ==
    [dir |-> IF path.abs THEN Normalise(path.dir, <<>>) ELSE Normalise(<<root>> \o path.dir, <<>>),
     name |-> path.name, ext |-> path.ext]

extname(p) == p.ext

Rel(dir, name, ext) == [abs |-> FALSE, dir |-> dir, name |-> name, ext |-> ext]
Abs(dir, name, ext) == [abs |-> TRUE, dir |-> dir, name |-> name, ext |-> ext]

PackagePath == Rel(<<>>, "package", ".json")

\* The paths callers pass: default.json in two spellings (one to addFile, one
\* to loadFile) and local.yaml as an absolute path.
AddPaths(root) == {Rel(<<>>, "default", ".json"), Abs(<<root>>, "local", ".yaml")}
LoadPaths(root) == {Rel(<<".">>, "default", ".json")}

Files(root) == {resolve(root, p) : p \in AddPaths(root) \cup LoadPaths(root) \cup {PackagePath}}

(***************************************************************************)
(* File contents and the two parsers.  A content is a text; each parser    *)
(* either returns a value or throws.                                       *)
(***************************************************************************)
Missing == "<no such file>"
Unreadable == "<directory>"

J_db == "{\"db\":{\"host\":\"localhost\",\"port\":\"5432\"}}"
J_port == "{\"db\":{\"port\":\"5433\"}}"
J_false == "false"
J_bad == "{\"db\": ["
Y_port == "db:\n  port: '6432'"
Pkg == "{\"name\":\"hmpo-config\",\"version\":\"4.0.0\"}"

Fields(host, port) == [j \in SubKeys |-> IF j = "host" THEN host ELSE port]
With1(k1, v1) == [k \in Keys |-> IF k = k1 THEN v1 ELSE Undef]
With2(k1, v1, k2, v2) == [k \in Keys |-> IF k = k1 THEN v1 ELSE IF k = k2 THEN v2 ELSE Undef]

NoErr == [name |-> "", fileName |-> NoPath,
          message |-> [prefix |-> "", file |-> NoPath, text |-> ""]]
Thrown(name, text) == [name |-> name, fileName |-> NoPath,
                       message |-> [prefix |-> "", file |-> NoPath, text |-> text]]

Parsed(v) == [ok |-> TRUE, val |-> v, err |-> NoErr]
Failed(e) == [ok |-> FALSE, val |-> JUndef, err |-> e]

\* The data every strict-JSON text denotes, for both parsers.
JsonData(text) ==
    CASE text = J_db -> JObj(With1("db", Obj(Fields("localhost", "5432"))))
      [] text = J_port -> JObj(With1("db", Obj(Fields(Absent, "5433"))))
      [] text = J_false -> JFalse
      [] text = Pkg -> JObj(With2("name", Str("hmpo-config"), "version", Str("4.0.0")))
      [] OTHER -> JUndef

IsJson(text) == text \in {J_db, J_port, J_false, Pkg}

\* JSON5.parse: every JSON text is JSON5; block-style YAML is not.
JSON5parse(text) ==
    IF IsJson(text) THEN Parsed(JsonData(text))
    ELSE Failed(Thrown("SyntaxError", "JSON5: invalid character"))

\* yaml.load: every JSON text is YAML (flow style) with the same data.
yamlLoad(text) ==
    IF IsJson(text) THEN Parsed(JsonData(text))
    ELSE IF text = Y_port THEN Parsed(JObj(With1("db", Obj(Fields(Absent, "6432")))))
    ELSE Failed(Thrown("YAMLException", "unexpected end of the stream"))

NoExt == ""

parseFile(content, ext) ==
    IF ext \in {".yaml", ".yml"} THEN yamlLoad(content) ELSE JSON5parse(content)

(***************************************************************************)
(* deep-clone-merge's extend(dest, source), as config.js uses it: the      *)
(* source's properties are merged into dest; an object-valued property     *)
(* merges into an object already there, anything else replaces what is     *)
(* there; what is taken from the source is cloned.                         *)
(***************************************************************************)
Clone(v) == [v EXCEPT !.ref = NoPath]

MergeValue(d, s) ==
    IF s.t = "undefined" THEN d
    ELSE IF s.t = "object" /\ d.t = "object"
         THEN [d EXCEPT !.f = [j \in SubKeys |-> IF s.f[j] # Absent THEN s.f[j] ELSE d.f[j]]]
    ELSE Clone(s)

deepMergeExtend(dest, source) ==
    IF source.k # "object" THEN dest
    ELSE JObj([k \in Keys |-> MergeValue(dest.m[k], source.m[k])])

\* Object.assign(dest, source): what a shallow merge would do instead.
shallowAssign(dest, source) ==
    IF source.k # "object" THEN dest
    ELSE JObj([k \in Keys |-> IF source.m[k].t = "undefined" THEN dest.m[k] ELSE source.m[k]])

(***************************************************************************)
(* The file cache.  An entry is absent or holds the value assigned to it,  *)
(* which may be falsy.  The nested objects of a parsed value are held by   *)
(* the cache entry: HeldBy gives them its identity.                        *)
(***************************************************************************)
NoEntry == [has |-> FALSE, v |-> JUndef]
Entry(v) == [has |-> TRUE, v |-> v]

HeldBy(v, p) ==
    [k |-> v.k,
     m |-> [k \in Keys |-> IF v.m[k].t = "object" THEN [v.m[k] EXCEPT !.ref = p] ELSE v.m[k]]]

\* A write through the configuration to an object the cache holds too is a
\* write to the cache: both name one object.
aliased(cache, cfg) ==
    [p \in DOMAIN cache |->
        IF cache[p].has /\ cache[p].v.k = "object" /\ cfg.k = "object"
        THEN Entry(JObj([k \in Keys |->
                 IF cache[p].v.m[k].t = "object" /\ cfg.m[k].t = "object" /\ cfg.m[k].ref = p
                 THEN cfg.m[k] ELSE cache[p].v.m[k]]))
        ELSE cache[p]]

\* The outcome of a method: ok or thrown (err), the value returned, the
\* cache it leaves and the files whose disk state it looked at.
Return(v, cache, touched) ==
    [ok |-> TRUE, val |-> v, err |-> NoErr, cache |-> cache, touched |-> touched]
Throw(e, cache, touched) ==
    [ok |-> FALSE, val |-> JUndef, err |-> e, cache |-> cache, touched |-> touched]

existsSync(p) == disk[p] # Missing

readFileSync(p) ==
    IF disk[p] = Missing
    THEN [ok |-> FALSE, content |-> "", err |-> Thrown("Error", "ENOENT: no such file or directory")]
    ELSE IF disk[p] = Unreadable
    THEN [ok |-> FALSE, content |-> "", err |-> Thrown("Error", "EISDIR: illegal operation on a directory")]
    ELSE [ok |-> TRUE, content |-> disk[p], err |-> NoErr]

\* The catch block of loadFile, left out.
annotateNothing(err, p) == err

\* The catch block of loadFile: the error gets the path and a new message.
annotate(err, p) ==
    [err EXCEPT !.fileName = p,
                !.message = [prefix |-> "Error loading config ", file |-> p, text |-> err.message.text]]

\* return this.fileCache[path] = data
cacheAndReturn(cache, p, data) ==
    Return(data, [cache EXCEPT ![p] = Entry(data)], {p})

\* The try block of loadFile: read (r), parse by extension (d), cache, return;
\* what either throws goes through the catch block.
parsedOrThrown(cache, p, d) ==
    IF ~d.ok THEN Throw(annotate(d.err, p), cache, {p})
    ELSE cacheAndReturn(cache, p, HeldBy(d.val, p))

readOrThrown(cache, p, r) ==
    IF ~r.ok THEN Throw(annotate(r.err, p), cache, {p})
    ELSE parsedOrThrown(cache, p, parseFile(r.content, extname(p)))

readAndParse(cache, p) == readOrThrown(cache, p, readFileSync(p))

\* loadFile after path.resolve.
loadResolved(cache, p) ==
    IF Truthy(cache[p].v) THEN Return(cache[p].v, cache, {})
    ELSE IF ~existsSync(p) THEN cacheAndReturn(cache, p, JObj(EmptyMap))
    ELSE readAndParse(cache, p)

loadResolvedNoExistsTest(cache, p) ==
    IF Truthy(cache[p].v) THEN Return(cache[p].v, cache, {})
    ELSE readAndParse(cache, p)

\* loadFile without the existsSync test: a missing file is a read error.
loadFileNoExistsTest(cache, path) == loadResolvedNoExistsTest(cache, resolve(appRoot, path))

loadFile(cache, path) == loadResolved(cache, resolve(appRoot, path))

getPackage(cache) == loadFile(cache, PackagePath)

TypeError == Thrown("TypeError", "Cannot read properties of undefined")

\* getDefaults: r1 is the outcome of the first getPackage(), r2 of the second.
defaultsOf(r1, r2) ==
    IF ~r2.ok THEN Throw(r2.err, r2.cache, r1.touched \cup r2.touched)
    ELSE IF Nullish(r2.val) THEN Throw(TypeError, r2.cache, r1.touched \cup r2.touched)
    ELSE Return(JObj([k \in Keys |->
                    IF k = "APP_NAME" THEN Prop(r1.val, "name")
                    ELSE IF k = "APP_VERSION" THEN Prop(r2.val, "version")
                    ELSE IF k = "APP_ROOT" THEN Str(appRoot)
                    ELSE Undef]),
                r2.cache, r1.touched \cup r2.touched)

defaultsAfter(r1) ==
    IF ~r1.ok THEN r1
    ELSE IF Nullish(r1.val) THEN Throw(TypeError, r1.cache, r1.touched)
    ELSE defaultsOf(r1, getPackage(r1.cache))

getDefaults(cache) == defaultsAfter(getPackage(cache))

\* toJSON that forgets the accumulated state.
toJSONDefaultsOnly(cfg, cache) == getDefaults(cache)

toJSON(cfg, cache) ==
    IF Truthy(cfg) THEN Return(cfg, cache, {}) ELSE getDefaults(cache)

\* addConfig once this.toJSON() has ended as t: val is the new this.config.
mergedInto(t, obj) ==
    IF ~t.ok THEN t ELSE Return(deepMergeExtend(t.val, obj), t.cache, t.touched)

mergedUnder(t, obj) ==
    IF ~t.ok THEN t
    ELSE IF obj.k # "object" THEN t
    ELSE Return(deepMergeExtend(obj, t.val), t.cache, t.touched)

mergedShallow(t, obj) ==
    IF ~t.ok THEN t ELSE Return(shallowAssign(t.val, obj), t.cache, t.touched)

\* addConfig with the arguments of the merge exchanged.
addConfigSwapped(cfg, cache, obj) == mergedUnder(toJSON(cfg, cache), obj)

\* addConfig with a shallow merge.
addConfigShallow(cfg, cache, obj) == mergedShallow(toJSON(cfg, cache), obj)

addConfig(cfg, cache, obj) == mergedInto(toJSON(cfg, cache), obj)

(***************************************************************************)
(* Scripts.  A script is a sequence of statements run by                   *)
(* vm.runInNewContext with the configuration object as its global object:  *)
(*   set       key = 's'         binds a top-level name                    *)
(*   setField  key.sub = 's'     writes a field of the object bound to key *)
(*   throw     throw new Error('s')                                        *)
(***************************************************************************)
Set(key, x) == [op |-> "set", key |-> key, sub |-> "", s |-> x]
SetField(key, sub, x) == [op |-> "setField", key |-> key, sub |-> sub, s |-> x]
ThrowStmt(x) == [op |-> "throw", key |-> "", sub |-> "", s |-> x]

\* One statement st: the bindings it leaves, or what it throws.  key.sub = s
\* throws for an unbound name, is dropped on a string, and leaves the
\* elements of an array as they are.
statement(st, m) ==
    CASE st.op = "throw" -> [ok |-> FALSE, m |-> m, err |-> Thrown("Error", st.s)]
      [] st.op = "set" -> [ok |-> TRUE, m |-> [m EXCEPT ![st.key] = Str(st.s)], err |-> NoErr]
      [] OTHER ->
           IF m[st.key].t = "undefined"
           THEN [ok |-> FALSE, m |-> m, err |-> Thrown("ReferenceError", "not defined")]
           ELSE IF m[st.key].t = "object"
           THEN [ok |-> TRUE, m |-> [m EXCEPT ![st.key].f[st.sub] = st.s], err |-> NoErr]
           ELSE [ok |-> TRUE, m |-> m, err |-> NoErr]

RECURSIVE exec(_, _)
after(x, rest) == IF x.ok THEN exec(rest, x.m) ELSE x

exec(script, m) ==
    IF script = <<>> THEN [ok |-> TRUE, m |-> m, err |-> NoErr]
    ELSE after(statement(Head(script), m), Tail(script))

\* A script run that undoes its writes when the script throws.
rolledBack(r, m) == IF r.ok THEN r ELSE [r EXCEPT !.m = m]

runWithRollback(script, m) == rolledBack(exec(script, m), m)

runInNewContext(script, m) == exec(script, m)

\* addString's parse, if it passed the format hint on to parseFile.
parseStringByHint(str, hint) == parseFile(str, hint)

\* addString's parse: parseFile is called with the string alone, so ext is
\* undefined and the switch takes its default branch.
parseString(str, hint) == parseFile(str, NoExt)

(***************************************************************************)
(* The inputs.                                                             *)
(***************************************************************************)
Fragments ==
    {JObj(With1("db", Obj(Fields("localhost", "5432")))),
     JObj(With1("db", Obj(Fields(Absent, "5433")))),
     JObj(With2("db", Arr(<<"replica">>), "APP_NAME", Str("custom")))}

Strings == {J_port, Y_port}
Hints == {NoExt, ".yaml"}

Scripts ==
    {<<Set("port", "8080"), SetField("db", "port", "6000")>>,
     <<Set("port", "9090"), ThrowStmt("stop")>>}

\* What the files hold when the store is constructed, and what default.json
\* may be changed to afterwards.
InitialContents(f) ==
    IF f.name = "package" THEN {Missing, Pkg}
    ELSE IF f.name = "default" THEN {Missing, J_db, J_false, J_bad}
    ELSE {Y_port}

Changeable(root) == {resolve(root, Rel(<<>>, "default", ".json"))}
Contents(f) == {Missing, J_db, J_bad, Unreadable}

(***************************************************************************)
(* The record of the last call: what was called with what, how it ended,   *)
(* the configuration and cache it started from, and whether any addX call  *)
(* has changed the store so far (added).                                   *)
(***************************************************************************)
Call(op) ==
    [op |-> op, ok |-> TRUE, ret |-> "this", path |-> NoPath, frag |-> JUndef,
     str |-> "", hint |-> "", script |-> <<>>, err |-> NoErr, val |-> JUndef,
     touched |-> {}, before |-> config, cacheBefore |-> fileCache, added |-> last.added]

Brief(c) == [op |-> c.op, ok |-> c.ok, path |-> c.path, frag |-> c.frag]

\* How a call ends: r is the outcome of its last step, c its record.
Ended(c, r) ==
    IF r.ok THEN [c EXCEPT !.touched = r.touched]
    ELSE [c EXCEPT !.ok = FALSE, !.ret = "throw", !.err = r.err, !.touched = r.touched]

Added(c) == [c EXCEPT !.added = TRUE]

Step(c, cfg, cache) ==
    /\ steps < MaxSteps
    /\ steps' = steps + 1
    /\ config' = cfg
    /\ fileCache' = aliased(cache, cfg)
    /\ last' = c
    /\ prev' = Brief(last)
    /\ UNCHANGED <<appRoot, disk>>

Init ==
    /\ \E arg \in RootArgs : appRoot = IF arg # NoRootArg THEN arg ELSE AppRootPath
    /\ fileCache = [p \in Files(appRoot) |-> NoEntry]
    /\ config = JUndef
    /\ disk \in [Files(appRoot) -> {Missing, Pkg, J_db, J_false, J_bad, Y_port}]
    /\ \A f \in Files(appRoot) : disk[f] \in InitialContents(f)
    /\ steps = 0
    /\ last = [op |-> "new", ok |-> TRUE, ret |-> "this", path |-> NoPath, frag |-> JUndef,
               str |-> "", hint |-> "", script |-> <<>>, err |-> NoErr, val |-> JUndef,
               touched |-> {}, before |-> JUndef, cacheBefore |-> fileCache, added |-> FALSE]
    /\ prev = [op |-> "", ok |-> TRUE, path |-> NoPath, frag |-> JUndef]

\* The end of a method that assigns its outcome a to this.config.
Assigned(c, a) ==
    IF a.ok THEN Step(Added(Ended(c, a)), a.val, a.cache)
    ELSE Step(Ended(c, a), config, a.cache)

\* The end of a method that returns the value of its outcome r.
Returned(c, r) ==
    Step(Ended([c EXCEPT !.ret = "value", !.val = r.val], r), config, r.cache)

AlsoTouched(a, touched) == [a EXCEPT !.touched = touched \cup a.touched]

addFileLoaded(c, r) ==
    IF ~r.ok THEN Step(Ended(c, r), config, r.cache)
    ELSE Assigned(c, AlsoTouched(addConfig(config, r.cache, r.val), r.touched))

AddFile(path) ==
    addFileLoaded([Call("addFile") EXCEPT !.path = resolve(appRoot, path)],
                  loadFile(fileCache, path))

addStringParsed(c, d) ==
    IF ~d.ok THEN Step(Ended(c, Throw(d.err, fileCache, {})), config, fileCache)
    ELSE Assigned(c, addConfig(config, fileCache, d.val))

AddString(str, hint) ==
    addStringParsed([Call("addString") EXCEPT !.str = str, !.hint = hint],
                    parseString(str, hint))

\* this.config = this.toJSON() has ended as t and the script as x.
addScriptRun(c, t, x) ==
    IF ~x.ok THEN Step(Added(Ended(c, Throw(x.err, t.cache, t.touched))), JObj(x.m), t.cache)
    ELSE Step(Added(Ended(c, t)), JObj(x.m), t.cache)

addScriptSeeded(c, script, t) ==
    IF ~t.ok THEN Step(Ended(c, t), config, t.cache)
    ELSE addScriptRun(c, t, runInNewContext(script, t.val.m))

AddScript(script) ==
    addScriptSeeded([Call("addScript") EXCEPT !.script = script], script,
                    toJSON(config, fileCache))

AddConfig(obj) ==
    Assigned([Call("addConfig") EXCEPT !.frag = obj], addConfig(config, fileCache, obj))

LoadFile(path) ==
    Returned([Call("loadFile") EXCEPT !.path = resolve(appRoot, path)],
             loadFile(fileCache, path))

GetDefaults == Returned(Call("getDefaults"), getDefaults(fileCache))

ToJSON == Returned(Call("toJSON"), toJSON(config, fileCache))

\* Somebody else creates, rewrites or removes a file.
DiskWrite(f, content) ==
    /\ steps < MaxSteps
    /\ content # disk[f]
    /\ disk' = [disk EXCEPT ![f] = content]
    /\ steps' = steps + 1
    /\ last' = [Call("disk") EXCEPT !.path = f, !.ret = ""]
    /\ prev' = Brief(last)
    /\ UNCHANGED <<appRoot, fileCache, config>>

Next ==
    \/ \E path \in AddPaths(appRoot) : AddFile(path)
    \/ \E str \in Strings, hint \in Hints : AddString(str, hint)
    \/ \E script \in Scripts : AddScript(script)
    \/ \E obj \in Fragments : AddConfig(obj)
    \/ \E path \in LoadPaths(appRoot) : LoadFile(path)
    \/ GetDefaults
    \/ ToJSON
    \/ \E f \in Changeable(appRoot) : \E content \in Contents(f) : DiskWrite(f, content)

Spec == Init /\ [][Next]_vars

(***************************************************************************)
(* What the claims are stated with.                                        *)
(***************************************************************************)
\* The configuration a snapshot taken now would show, and the one a snapshot
\* taken just before the last call would have shown.
Observed == toJSON(config, fileCache).val
ObservedBefore == toJSON(last.before, last.cacheBefore).val

DefaultFile == resolve(appRoot, Rel(<<>>, "default", ".json"))
PackageFile == resolve(appRoot, PackagePath)

F_db == JObj(With1("db", Obj(Fields("localhost", "5432"))))
F_port == JObj(With1("db", Obj(Fields(Absent, "5433"))))

Max(S) == CHOOSE x \in S : \A y \in S : y <= x

\* cfg holds every key path of fragment frag with frag's value, and agrees
\* with old at every key path frag does not have.
MergedOver(cfg, old, frag) ==
    /\ cfg.k = "object"
    /\ \A k \in Keys :
          CASE frag.m[k].t = "undefined" -> cfg.m[k] = old.m[k]
            [] frag.m[k].t = "object" ->
                 /\ cfg.m[k].t = "object"
                 /\ \A j \in SubKeys :
                       cfg.m[k].f[j] = IF frag.m[k].f[j] # Absent THEN frag.m[k].f[j]
                                       ELSE IF old.m[k].t = "object" THEN old.m[k].f[j]
                                       ELSE Absent
            [] OTHER -> Same(cfg.m[k], frag.m[k])

\* C1: after addConfig(A); addConfig(B) the configuration has, at each key:
\* B's value where B's is an array or a scalar; where B's is an object, B's
\* fields over A's fields (A's object) or B's fields alone (A's array or
\* scalar); A's value where only A has the key.
C1_MergeOverride ==
    (last.op = "addConfig" /\ prev.op = "addConfig" /\ last.ok /\ prev.ok) =>
        \A k \in Keys :
            LET a == prev.frag.m[k]
                b == last.frag.m[k]
                c == config.m[k]
            IN  CASE b.t \in {"string", "array"} -> Same(c, b)
                  [] b.t = "object" ->
                       /\ c.t = "object"
                       /\ \A j \in SubKeys :
                             /\ b.f[j] # Absent => c.f[j] = b.f[j]
                             /\ (b.f[j] = Absent /\ a.t = "object" /\ a.f[j] # Absent)
                                    => c.f[j] = a.f[j]
                             /\ (b.f[j] = Absent /\ a.t \in {"string", "array"})
                                    => c.f[j] = Absent
                  [] b.t = "undefined" /\ a.t \in {"string", "array"} -> Same(c, a)
                  [] b.t = "undefined" /\ a.t = "object" ->
                       /\ c.t = "object"
                       /\ \A j \in SubKeys : a.f[j] # Absent => c.f[j] = a.f[j]
                  [] OTHER -> TRUE

C1_Witness ==
    /\ last.op = "addConfig" /\ prev.op = "addConfig"
    /\ prev.frag = F_db /\ last.frag = F_port
    /\ config.m["db"].f = Fields("localhost", "5433")

\* C2: a path that has a cache entry is not looked up on disk again,
\* whatever value the entry holds.
C2_ParsedAtMostOnce ==
    \A p \in Files(appRoot) : last.cacheBefore[p].has => p \notin last.touched

\* C3: addFile(p) right after a successful addFile(p) leaves the
\* configuration as it was and looks at no file.
C3_AddFileTwice ==
    (last.op = "addFile" /\ prev.op = "addFile" /\ prev.path = last.path /\ prev.ok) =>
        /\ last.ok
        /\ SameJ(config, last.before)
        /\ last.touched = {}

\* C4 as claimed: addFile(p) of a file that does not exist succeeds, returns
\* the store and leaves the observed configuration as it was.
C4_MissingFileNoChange ==
    (last.op = "addFile" /\ disk[last.path] = Missing) =>
        /\ last.ok
        /\ last.ret = "this"
        /\ SameJ(Observed, ObservedBefore)

\* C4 amended: the same, for a path the cache holds no parsed object for.
C4_MissingUncachedNoChange ==
    (last.op = "addFile" /\ disk[last.path] = Missing
        /\ ~Truthy(last.cacheBefore[last.path].v)) =>
        /\ last.ok
        /\ last.ret = "this"
        /\ SameJ(Observed, ObservedBefore)

C4_Witness ==
    /\ last.op = "addFile" /\ disk[last.path] = Missing
    /\ ~Truthy(last.cacheBefore[last.path].v)
    /\ last.ok
    /\ last.before.k = "object" /\ last.before.m["db"].t = "object"

InvalidOnDisk(p) ==
    /\ disk[p] \notin {Missing, Unreadable}
    /\ ~parseFile(disk[p], extname(p)).ok

FailedNaming(p) ==
    /\ ~last.ok
    /\ last.err.fileName = p
    /\ last.err.message.prefix = "Error loading config "
    /\ last.err.message.file = p

C6_FailureLeavesNoEntry ==
    (last.op \in {"addFile", "loadFile"} /\ ~last.ok) => ~fileCache[last.path].has

\* C7: toJSON returns the defaults {APP_NAME, APP_VERSION, APP_ROOT}, read
\* from package.json and the root, while no addX call has changed the store,
\* and the accumulated configuration afterwards.
C7_SnapshotOrDefaults ==
    last.op = "toJSON" =>
        /\ last.ok
        /\ ~last.added =>
              /\ last.val.k = "object"
              /\ \A k \in Keys :
                    last.val.m[k] =
                        CASE k = "APP_NAME" ->
                               IF disk[PackageFile] = Pkg THEN Str("hmpo-config") ELSE Undef
                          [] k = "APP_VERSION" ->
                               IF disk[PackageFile] = Pkg THEN Str("4.0.0") ELSE Undef
                          [] k = "APP_ROOT" -> Str(appRoot)
                          [] OTHER -> Undef
        /\ last.added => (last.val.k = "object" /\ last.val = config)

C7_Witness ==
    /\ last.op = "toJSON" /\ last.added
    /\ last.val.m["db"].t = "object"
    /\ last.val.m["APP_ROOT"] = Str("/app")

\* C8 as claimed: addString parses by the hint, YAML for .yaml and .yml.
C8_HintSelectsParser ==
    last.op = "addString" =>
        LET d == IF last.hint \in {".yaml", ".yml"} THEN yamlLoad(last.str)
                 ELSE JSON5parse(last.str)
        IN  /\ last.ok = d.ok
            /\ d.ok => MergedOver(config, ObservedBefore, d.val)

\* C8 amended: addString parses as relaxed JSON whatever the hint, merges
\* the parsed value, and changes nothing when the parse fails.
C8_AlwaysJson5 ==
    last.op = "addString" =>
        LET d == JSON5parse(last.str)
        IN  /\ last.ok = d.ok
            /\ d.ok => MergedOver(config, ObservedBefore, d.val)
            /\ ~d.ok => config = last.before

C8_Witness ==
    /\ last.op = "addString" /\ last.hint = ".yaml" /\ last.str = Y_port
    /\ ~last.ok

\* C9: after addScript(s) the configuration is the bindings the script
\* started with (the observed configuration) with the writes of the
\* statements that ran: all of them and no error when none fails; those
\* before the first failing statement, and that statement's error,
\* otherwise.
C9_ScriptWritesKept ==
    last.op = "addScript" =>
        LET B == ObservedBefore.m
            sc == last.script
            Bound(i, key) ==
                B[key].t # "undefined"
                    \/ \E h \in 1..(i - 1) : sc[h].op = "set" /\ sc[h].key = key
            Fails(i) ==
                sc[i].op = "throw" \/ (sc[i].op = "setField" /\ ~Bound(i, sc[i].key))
            Ran == {i \in 1..Len(sc) : \A h \in 1..i : ~Fails(h)}
            Sets(k) == {i \in Ran : sc[i].op = "set" /\ sc[i].key = k}
            Writes(k, j) == {i \in Ran : sc[i].op = "setField" /\ sc[i].key = k /\ sc[i].sub = j}
        IN  /\ last.ok = (Ran = 1..Len(sc))
            /\ ~last.ok => (last.err.fileName = NoPath /\ last.err.message.prefix = "")
            /\ config.k = "object"
            /\ \A k \in Keys :
                  IF Sets(k) # {} THEN config.m[k] = Str(sc[Max(Sets(k))].s)
                  ELSE IF B[k].t = "object"
                  THEN /\ config.m[k].t = "object"
                       /\ \A j \in SubKeys :
                             config.m[k].f[j] = IF Writes(k, j) # {} THEN sc[Max(Writes(k, j))].s
                                                ELSE B[k].f[j]
                  ELSE config.m[k] = B[k]

C9_Witness ==
    /\ last.op = "addScript" /\ ~last.ok
    /\ last.script[2].op = "throw"
    /\ config.m["port"] = Str("9090")
    /\ last.before.k = "object"

====
